---- MODULE Spec2Model ----
(***************************************************************************)
(* SafeBites: the query-understanding and retrieval pipeline.              *)
(*                                                                         *)
(*   - the FAISS index on disk (index.faiss + index.pkl), its build and    *)
(*     its readers (faiss_service.py);                                     *)
(*   - semantic retrieval with negation and centroid refinement;           *)
(*   - the LangGraph conversation pipeline (flow/graph.py);                *)
(*   - the SearchChat page that calls it.                                  *)
(*                                                                         *)
(* Similarities are cosines of small integer vectors, compared exactly as  *)
(* signed squared fractions <<num, den>>.                                  *)
(***************************************************************************)
EXTENDS Integers, Sequences, FiniteSets, TLC

VARIABLES
    \* ---- the dish collection and the index files on disk
    dish_collection,   \* sequence of dish ids, in find() order
    index_faiss,       \* index.faiss: sequence of vectors (vector_id = position - 1)
    index_pkl,         \* index.pkl: sequence of metadata records
    bpc,               \* position of the running build_faiss_from_db
    b_vectors,         \* the build's in-memory vectors
    b_metadata,        \* the build's in-memory metadata
    builds,            \* number of builds started
    spc,               \* position of every search_dishes reader
    s_faiss,           \* what every reader loaded from index.faiss
    s_pkl,             \* what every reader loaded from index.pkl
    s_overlap,         \* the readers that were in flight while a build saved
    \* ---- one update_faiss_index call at a time
    upc,               \* position of the running update_faiss_index
    new_dishes,        \* its argument
    u_faiss,           \* its vector_store in memory: vectors
    u_pkl,             \*                              metadata
    u_builds,          \* the number of builds started when it was called
    raced,             \* an update and a build have overlapped
    \* ---- one semantic_retrieve_with_negation call
    rpc,
    query,
    restaurant_id,
    llm_content,       \* what the LLM answered to the intent prompt
    intents,
    raised,            \* an exception reached the caller of extract_query_intent
    pos_hits,
    neg_hits,
    cursor,            \* the for loops' position in intents.positive / negative
    searched,          \* the terms handed to search_dishes, in call order
    refined,
    \* ---- one request in the LangGraph pipeline
    ppc,               \* "idle", "invoked" (inside graph.invoke) or "returned"
    node,              \* every graph node: "pending", "running", "waiting" or "done"
    query_parts,       \* category -> the clause texts of that category
    llm_failed,        \* the retrievers whose LLM call failed
    menu_results,      \* dicts keyed by clause text
    info_results,
    preference_results,
    responses,         \* the QueryResponse list of the final response
    status,
    caller_gone,       \* the caller no longer waits for the response
    request,           \* the request body: query, session_id
    resolved_query,    \* the query as context_resolver returned it
    chat_intents,      \* what intent_classifier returned: category -> clause texts
    classifier_failed, \* the classifier's LLM output did not parse
    \* ---- one session's stored turns and the context rebuilt from them
    stored_states,     \* db.chat_states of the session, oldest first
    user_doc,          \* the user document rebuild_context was called for
    rebuilt,           \* the context rebuild_context returned
    cxpc,
    \* ---- the SearchChat page
    messages,          \* useState<Message[]>([])
    inputValue,        \* useState('')
    isLoading,         \* useState(false)
    fetches,           \* the handleSendMessage calls waiting on fetch or on response.text()
    requests,          \* the number of fetch calls made
    \* ---- the Login and Dashboard pages
    route,             \* the page shown: "/login" or "/dashboard"
    username,          \* Login's useState("")
    isSubmitting,      \* Login's useState(false): handleSubmit waits on the server
    localStorage,      \* authToken and username, "null" when absent
    login_result,      \* the server's answer to the last login request
    dashboard_checked, \* the Dashboard has run fetchUserData's check since the last login
    logins,            \* the number of login requests made
    \* ---- locks
    locks,             \* the index operations that hold the index's lock
    \* ---- concurrent requests and their chat sessions
    ipc,               \* position of every request in the router
    payload,
    session_id,
    context,
    chat_states        \* db.chat_states: session -> the turns saved, oldest first

indexVars == <<dish_collection, index_faiss, index_pkl, bpc,
               b_vectors, b_metadata, builds, spc, s_faiss, s_pkl, s_overlap>>
retrieveVars == <<rpc, query, restaurant_id, llm_content, intents, raised,
                  pos_hits, neg_hits, cursor, searched, refined>>
pipeVars == <<ppc, node, query_parts, llm_failed, menu_results, info_results,
              preference_results, responses, status, caller_gone>>
lockVars == <<locks>>
loginVars == <<route, username, isSubmitting, localStorage, login_result,
               dashboard_checked, logins>>
chatVars == <<messages, inputValue, isLoading, fetches, requests>>
ctxVars == <<stored_states, user_doc, rebuilt, cxpc>>
reqVars == <<request, resolved_query, chat_intents, classifier_failed>>
sessVars == <<ipc, payload, session_id, context, chat_states>>
insertVars == <<upc, new_dishes, u_faiss, u_pkl, u_builds, raced>>
vars == <<indexVars, insertVars, lockVars, retrieveVars, pipeVars, reqVars, sessVars, ctxVars,
         chatVars, loginVars>>

\* what the actions of one part leave alone
exceptIndex == <<insertVars, retrieveVars, pipeVars, reqVars, sessVars, ctxVars, chatVars,
    loginVars>>
exceptInsert == <<retrieveVars, pipeVars, reqVars, sessVars, ctxVars, chatVars,
    loginVars>>
exceptRetrieve == <<indexVars, insertVars, lockVars, pipeVars, reqVars, sessVars, ctxVars, chatVars,
    loginVars>>
exceptPipeline == <<indexVars, insertVars, lockVars, retrieveVars, sessVars, ctxVars, chatVars,
    loginVars>>
exceptContext == <<indexVars, insertVars, lockVars, retrieveVars, pipeVars, reqVars, sessVars, chatVars,
    loginVars>>
exceptChat == <<indexVars, insertVars, lockVars, retrieveVars, pipeVars, reqVars, sessVars, ctxVars,
    loginVars>>
exceptLogin == <<indexVars, insertVars, lockVars, retrieveVars, pipeVars, reqVars, sessVars, ctxVars,
    chatVars>>
exceptSessions == <<indexVars, insertVars, lockVars, retrieveVars, pipeVars, reqVars, ctxVars, chatVars,
    loginVars>>

----------------------------------------------------------------------------
\* Bounds of the model

MaxTerms == 3      \* most terms (positive and negative together) the LLM returns
MaxDishes == 6     \* dishes the collection may hold
MaxBuilds == 2     \* index builds in one run
NumSearchers == 2   \* concurrent search_dishes calls
MaxClauses == 2
NumInvocations == 2 \* concurrent requests
MaxTurns == 7       \* turns a session stores
MaxMessages == 3    \* messages the user sends in SearchChat
MaxLogins == 2      \* login requests in one run

\* Program constants
top_k == 20
ThresholdNum == 8      \* threshold = 0.8 = ThresholdNum / ThresholdDen
ThresholdDen == 10
CentroidNum == 30      \* similarity > 0.30 = CentroidNum / CentroidDen
CentroidDen == 100
last_n == 5

----------------------------------------------------------------------------
\* Vectors and cosine similarity

Dot(u, v) == u[1] * v[1] + u[2] * v[2] + u[3] * v[3]

VecAdd(u, v) == <<u[1] + v[1], u[2] + v[2], u[3] + v[3]>>

\* cosine_similarity(u, v) as the signed square  sgn(u.v) * (u.v)^2 / (|u|^2 |v|^2)
cosine_similarity(u, v) ==
    LET d == Dot(u, v)
    IN  <<IF d >= 0 THEN d * d ELSE -(d * d), Dot(u, u) * Dot(v, v)>>

\* a >= b and a > b for fractions with positive denominators
FracGE(a, b) == a[1] * b[2] >= b[1] * a[2]
FracGT(a, b) == a[1] * b[2] > b[1] * a[2]

\* the signed square of a non-negative threshold num/den
SqThreshold(num, den) == <<num * num, den * den>>

----------------------------------------------------------------------------
\* The catalog and the embedding model

Restaurants == {"rest_1", "rest_2"}


\* dish["restaurant_id"]
DishRestaurant(d) == IF d = 4 THEN "rest_2" ELSE "rest_1"

\* embeddings.embed_documents of the dish's text representation:
\*   1 pasta with nuts, 2 salad, 3 plain pasta, 4 pasta of another restaurant
DishEmb(d) ==
    CASE d = 1 -> <<3, 1, 0>>
      [] d = 2 -> <<0, 0, 1>>
      [] d = 3 -> <<1, 0, 0>>
      [] d = 4 -> <<4, 3, 0>>
      [] OTHER -> <<1, 1, 1>>

\* the dishes in MongoDB when the server starts
InitialDishes == <<1, 2, 3, 4>>

Terms == {"pasta", "nuts", "salad"}

Queries == {"", "pasta without nuts", "salad"}

\* embeddings.embed_query
embed_query(t) ==
    CASE t = "pasta" -> <<1, 0, 0>>
      [] t = "nuts"  -> <<3, 4, 0>>
      [] t = "salad" -> <<0, 0, 3>>
      [] t = "pasta without nuts" -> <<4, 0, 3>>
      [] OTHER -> <<1, 1, 1>>

----------------------------------------------------------------------------
\* Sequence helpers

Range(s) == {s[i] : i \in DOMAIN s}

SeqsUpTo(S, n) == UNION {[1 .. k -> S] : k \in 0 .. n}

RECURSIVE Take(_, _)
Take(s, n) == IF n <= 0 \/ s = <<>> THEN <<>> ELSE <<Head(s)>> \o Take(Tail(s), n - 1)

RECURSIVE SelectHits(_, _)
SelectHits(s, keep) ==
    IF s = <<>> THEN <<>>
    ELSE (IF Head(s).dish \in keep THEN <<Head(s)>> ELSE <<>>) \o SelectHits(Tail(s), keep)

----------------------------------------------------------------------------
\* build_faiss_from_db: the texts' vectors and the metadata of a dish list

Metadata(dishes) ==
    [i \in 1 .. Len(dishes) |->
        [dish_id |-> dishes[i], restaurant_id |-> DishRestaurant(dishes[i]),
         vector_id |-> i - 1]]

Vectors(dishes) == [i \in 1 .. Len(dishes) |-> DishEmb(dishes[i])]

\* vector_store.index.reconstruct(vector_id)
reconstruct(faiss, vector_id) == faiss[vector_id + 1]

----------------------------------------------------------------------------
\* search_dishes(query, restaurant_id, top_k, threshold) on a loaded index

\* the FAISS similarity search: positions by similarity to the query, best first,
\* ties by position
RECURSIVE FaissRanked(_, _, _)
FaissRanked(faiss, q, left) ==
    IF left = {} THEN <<>>
    ELSE LET best == CHOOSE i \in left : \A j \in left :
                        \/ FracGT(cosine_similarity(q, faiss[i]), cosine_similarity(q, faiss[j]))
                        \/ /\ FracGE(cosine_similarity(q, faiss[i]), cosine_similarity(q, faiss[j]))
                           /\ i <= j
         IN  <<best>> \o FaissRanked(faiss, q, left \ {best})

similarity_search_with_score(faiss, pkl, q, k) ==
    LET ranked == Take(FaissRanked(faiss, q, DOMAIN faiss \cap DOMAIN pkl), k)
    IN  [n \in DOMAIN ranked |->
            [metadata |-> pkl[ranked[n]],
             score |-> cosine_similarity(q, faiss[ranked[n]])]]

\* a threshold filter that drops a score equal to the threshold
passes_threshold_strict(score, threshold) == FracGT(score, threshold)

\* step 4 of search_dishes: a hit is kept when its score is at least the threshold
passes_threshold(score, threshold) == FracGE(score, threshold)

RECURSIVE StructuredRes(_, _, _, _)
\* a search that ignores the restaurant it was given
in_restaurant_any(metadata, rid) == TRUE

\* Filter results by restaurant_id if provided
in_restaurant(metadata, rid) == rid = "None" \/ metadata.restaurant_id = rid

StructuredRes(res, faiss, rid, threshold) ==
    IF res = <<>> THEN <<>>
    ELSE LET r == Head(res)
             keep == /\ in_restaurant(r.metadata, rid)
                     /\ passes_threshold(r.score, threshold)
         IN  (IF keep
              THEN <<[dish |-> r.metadata.dish_id,
                      score |-> r.score,
                      embedding |-> reconstruct(faiss, r.metadata.vector_id)]>>
              ELSE <<>>)
             \o StructuredRes(Tail(res), faiss, rid, threshold)

search_dishes(q, rid) ==
    StructuredRes(similarity_search_with_score(index_faiss, index_pkl, embed_query(q), top_k),
                  index_faiss, rid, SqThreshold(ThresholdNum, ThresholdDen))

----------------------------------------------------------------------------
\* extract_query_intent: the LLM's answer parsed, or the fallback

LLMContents ==
    {[parses |-> FALSE, positive |-> <<>>, negative |-> <<>>]}
    \cup {[parses |-> TRUE, positive |-> pn[1], negative |-> pn[2]] :
            pn \in {x \in SeqsUpTo(Terms, MaxTerms) \X SeqsUpTo(Terms, MaxTerms) :
                       Len(x[1]) + Len(x[2]) <= MaxTerms}}

\* a fallback that loses the query
extract_query_intent_lost(q, content) ==
    IF content.parses
    THEN [raised |-> FALSE, positive |-> content.positive, negative |-> content.negative]
    ELSE [raised |-> FALSE, positive |-> <<>>, negative |-> <<>>]

extract_query_intent(q, content) ==
    IF content.parses
    THEN [raised |-> FALSE, positive |-> content.positive, negative |-> content.negative]
    ELSE [raised |-> FALSE, positive |-> <<q>>, negative |-> <<>>]

----------------------------------------------------------------------------
\* semantic_retrieve_with_negation, steps 4 to 6

\* no deduplication: every filtered hit is kept
unique_filtered_dishes_all(hits, seen) == hits

\* a centroid filter that keeps a similarity equal to the threshold
passes_centroid_inclusive(similarity) ==
    FracGE(similarity, SqThreshold(CentroidNum, CentroidDen))

\* if similarity > 0.30
passes_centroid(similarity) ==
    FracGT(similarity, SqThreshold(CentroidNum, CentroidDen))

\* a filter that keeps a dish unless every negative search returned it
filtered_dishes_lenient(pos, neg) ==
    LET neg_ids == {d \in {neg[i].dish : i \in DOMAIN neg} :
                      Cardinality({i \in DOMAIN neg : neg[i].dish = d}) >= 2}
    IN  SelectHits(pos, {pos[i].dish : i \in DOMAIN pos} \ neg_ids)

\* Step 4: filter out negative matches
filtered_dishes(pos, neg) ==
    LET neg_ids == {neg[i].dish : i \in DOMAIN neg}
    IN  SelectHits(pos, {pos[i].dish : i \in DOMAIN pos} \ neg_ids)

\* Step 5: remove duplicates, first occurrence kept
RECURSIVE unique_filtered_dishes(_, _)
unique_filtered_dishes(hits, seen) ==
    IF hits = <<>> THEN <<>>
    ELSE IF Head(hits).dish \in seen
         THEN unique_filtered_dishes(Tail(hits), seen)
         ELSE <<Head(hits)>> \o unique_filtered_dishes(Tail(hits), seen \cup {Head(hits).dish})

\* Step 6: refine_with_centroid.  np.mean over the positive intents' embeddings;
\* the cosine does not change with the division by their number.
RECURSIVE SumEmb(_)
SumEmb(ts) == IF ts = <<>> THEN <<0, 0, 0>> ELSE VecAdd(embed_query(Head(ts)), SumEmb(Tail(ts)))

centroid(positive_intents) == SumEmb(positive_intents)

RECURSIVE WithSimilarity(_, _)
WithSimilarity(hits, c) ==
    IF hits = <<>> THEN <<>>
    ELSE LET similarity == cosine_similarity(c, Head(hits).embedding)
         IN  (IF passes_centroid(similarity)
              THEN <<[dish |-> Head(hits).dish, score |-> Head(hits).score,
                      embedding |-> Head(hits).embedding,
                      centroid_similarity |-> similarity]>>
              ELSE <<>>)
             \o WithSimilarity(Tail(hits), c)

\* refined.sort(key=centroid_similarity, reverse=True): a stable insertion sort
RECURSIVE InsertDesc(_, _)
InsertDesc(h, sorted) ==
    IF sorted = <<>> THEN <<h>>
    ELSE IF FracGT(h.centroid_similarity, Head(sorted).centroid_similarity)
         THEN <<h>> \o sorted
         ELSE <<Head(sorted)>> \o InsertDesc(h, Tail(sorted))

RECURSIVE SortDesc(_)
SortDesc(hits) ==
    IF hits = <<>> THEN <<>>
    ELSE InsertDesc(hits[Len(hits)], SortDesc(SubSeq(hits, 1, Len(hits) - 1)))

\* the refinement without its final sort
refine_with_centroid_unsorted(dish_hits, positive_intents) ==
    WithSimilarity(dish_hits, centroid(positive_intents))

refine_with_centroid(dish_hits, positive_intents) ==
    SortDesc(WithSimilarity(dish_hits, centroid(positive_intents)))

----------------------------------------------------------------------------
\* The index on disk: build_faiss_from_db and the readers of search_dishes

Searchers == 1 .. NumSearchers

\* an operation that runs as an exclusive section of the index
exclusive_section_held(op) == {op}

\* the lock an index operation takes when it starts: build_faiss_from_db and
\* update_faiss_index take none
exclusive_section(op) == {}

InitIndex ==
    /\ locks = {}
    /\ dish_collection = InitialDishes
    /\ index_faiss = Vectors(InitialDishes)
    /\ index_pkl = Metadata(InitialDishes)
    /\ bpc = "idle"
    /\ b_vectors = <<>>
    /\ b_metadata = <<>>
    /\ builds = 0
    /\ spc = [i \in Searchers |-> "idle"]
    /\ s_faiss = [i \in Searchers |-> <<>>]
    /\ s_pkl = [i \in Searchers |-> <<>>]
    /\ s_overlap = {}

\* a dish is inserted into MongoDB
AddDish ==
    /\ Len(dish_collection) < MaxDishes
    /\ dish_collection' = Append(dish_collection, Len(dish_collection) + 1)
    /\ UNCHANGED <<index_faiss, index_pkl, bpc, b_vectors, b_metadata, builds,
                   spc, s_faiss, s_pkl, s_overlap>>
    /\ UNCHANGED locks
    /\ UNCHANGED exceptIndex

\* dishes = list(dish_collection.find()); texts, metadata
BuildRead ==
    /\ bpc = "idle"
    /\ builds < MaxBuilds
    /\ builds' = builds + 1
    /\ b_metadata' = Metadata(dish_collection)
    /\ b_vectors' = <<>>
    /\ bpc' = "embed"
    /\ UNCHANGED <<dish_collection, index_faiss, index_pkl, spc, s_faiss, s_pkl, s_overlap>>
    /\ locks' = locks \cup exclusive_section("build")
    /\ UNCHANGED exceptIndex

\* vector_store = FAISS.from_texts(texts, embeddings, metadatas), in memory
BuildEmbed ==
    /\ bpc = "embed"
    /\ b_vectors' = [i \in DOMAIN b_metadata |-> DishEmb(b_metadata[i].dish_id)]
    /\ bpc' = "save_faiss"
    /\ UNCHANGED <<dish_collection, index_faiss, index_pkl, b_metadata, builds,
                   spc, s_faiss, s_pkl, s_overlap>>
    /\ UNCHANGED locks
    /\ UNCHANGED exceptIndex

\* the calls that are in flight: called and not yet returned
InFlight == {i \in Searchers : spc[i] \in {"embed", "load_pkl", "loaded"}}

\* vector_store.save_local(index_path), first file: index.faiss
SaveFaiss ==
    /\ bpc = "save_faiss"
    /\ index_faiss' = b_vectors
    /\ bpc' = "save_pkl"
    /\ s_overlap' = s_overlap \cup InFlight
    /\ UNCHANGED <<dish_collection, index_pkl, b_vectors, b_metadata, builds,
                   spc, s_faiss, s_pkl>>
    /\ UNCHANGED locks
    /\ UNCHANGED exceptIndex

\* vector_store.save_local(index_path), second file: index.pkl
SavePkl ==
    /\ bpc = "save_pkl"
    /\ index_pkl' = b_metadata
    /\ bpc' = "idle"
    /\ s_overlap' = s_overlap \cup InFlight
    /\ UNCHANGED <<dish_collection, index_faiss, b_vectors, b_metadata, builds,
                   spc, s_faiss, s_pkl>>
    /\ locks' = locks \ {"build"}
    /\ UNCHANGED exceptIndex

\* search_dishes is called: the query is embedded
SearchCall(i) ==
    /\ spc[i] = "idle"
    /\ spc' = [spc EXCEPT ![i] = "embed"]
    /\ UNCHANGED <<dish_collection, index_faiss, index_pkl, bpc, b_vectors, b_metadata,
                   builds, s_faiss, s_pkl, s_overlap>>
    /\ UNCHANGED locks
    /\ UNCHANGED exceptIndex

\* FAISS.load_local reads index.faiss
LoadFaiss(i) ==
    /\ spc[i] = "embed"
    /\ s_faiss' = [s_faiss EXCEPT ![i] = index_faiss]
    /\ spc' = [spc EXCEPT ![i] = "load_pkl"]
    /\ UNCHANGED <<dish_collection, index_faiss, index_pkl, bpc, b_vectors, b_metadata,
                   builds, s_pkl, s_overlap>>
    /\ UNCHANGED locks
    /\ UNCHANGED exceptIndex

\* FAISS.load_local reads index.pkl
LoadPkl(i) ==
    /\ spc[i] = "load_pkl"
    /\ s_pkl' = [s_pkl EXCEPT ![i] = index_pkl]
    /\ spc' = [spc EXCEPT ![i] = "loaded"]
    /\ UNCHANGED <<dish_collection, index_faiss, index_pkl, bpc, b_vectors, b_metadata,
                   builds, s_faiss, s_overlap>>
    /\ UNCHANGED locks
    /\ UNCHANGED exceptIndex

\* search_dishes returns its hits
SearchReturn(i) ==
    /\ spc[i] = "loaded"
    /\ spc' = [spc EXCEPT ![i] = "returned"]
    /\ UNCHANGED <<dish_collection, index_faiss, index_pkl, bpc, b_vectors, b_metadata,
                   builds, s_faiss, s_pkl, s_overlap>>
    /\ UNCHANGED locks
    /\ UNCHANGED exceptIndex

NextIndex ==
    \/ AddDish
    \/ BuildRead
    \/ BuildEmbed
    \/ SaveFaiss
    \/ SavePkl
    \/ \E i \in Searchers : SearchCall(i)
    \/ \E i \in Searchers : LoadFaiss(i)
    \/ \E i \in Searchers : LoadPkl(i)
    \/ \E i \in Searchers : SearchReturn(i)

----------------------------------------------------------------------------
\* update_faiss_index(new_dishes): load the index, add the new dishes, save it

\* the metadata of the dishes added to a store that holds ntotal vectors
new_metadata(dishes, ntotal) ==
    [i \in 1 .. Len(dishes) |->
        [dish_id |-> dishes[i], restaurant_id |-> DishRestaurant(dishes[i]),
         vector_id |-> ntotal + i - 1]]

\* an add that puts the new entries in front of the existing ones
add_texts_front(faiss, pkl, dishes) ==
    [faiss |-> Vectors(dishes) \o faiss,
     pkl |-> new_metadata(dishes, Len(faiss)) \o pkl]

\* vector_store.add_texts(texts, metadatas): the new vectors and their metadata
\* are appended to the store
add_texts(faiss, pkl, dishes) ==
    [faiss |-> faiss \o Vectors(dishes),
     pkl |-> pkl \o new_metadata(dishes, Len(faiss))]

\* the dishes of MongoDB that the index on disk does not hold
NotIndexed ==
    SelectSeq(dish_collection,
              LAMBDA d : d \notin {index_pkl[k].dish_id : k \in DOMAIN index_pkl})

InitInsert ==
    /\ upc = "idle"
    /\ new_dishes = <<>>
    /\ u_faiss = <<>>
    /\ u_pkl = <<>>
    /\ u_builds = 0
    /\ raced = FALSE

\* a build is running, or one has started since the update was called
BuildInterferes == bpc # "idle" \/ builds # u_builds

\* update_faiss_index(new_dishes) is called for the dishes just added
InsertCall ==
    /\ upc = "idle"
    /\ NotIndexed # <<>>
    /\ new_dishes' = NotIndexed
    /\ u_builds' = builds
    /\ raced' = (raced \/ bpc # "idle")
    /\ upc' = "load_faiss"
    /\ UNCHANGED <<u_faiss, u_pkl>>
    /\ locks' = locks \cup exclusive_section("insert")
    /\ UNCHANGED <<indexVars, exceptInsert>>

\* FAISS.load_local reads index.faiss
InsertLoadFaiss ==
    /\ upc = "load_faiss"
    /\ u_faiss' = index_faiss
    /\ raced' = (raced \/ BuildInterferes)
    /\ upc' = "load_pkl"
    /\ UNCHANGED <<new_dishes, u_pkl, u_builds>>
    /\ UNCHANGED locks
    /\ UNCHANGED <<indexVars, exceptInsert>>

\* FAISS.load_local reads index.pkl
InsertLoadPkl ==
    /\ upc = "load_pkl"
    /\ u_pkl' = index_pkl
    /\ raced' = (raced \/ BuildInterferes)
    /\ upc' = "add"
    /\ UNCHANGED <<new_dishes, u_faiss, u_builds>>
    /\ UNCHANGED locks
    /\ UNCHANGED <<indexVars, exceptInsert>>

\* vector_store.add_texts(texts=new_texts, metadatas=new_metadata), in memory
InsertAdd ==
    /\ upc = "add"
    /\ LET store == add_texts(u_faiss, u_pkl, new_dishes)
       IN  /\ u_faiss' = store.faiss
           /\ u_pkl' = store.pkl
    /\ raced' = (raced \/ BuildInterferes)
    /\ upc' = "save_faiss"
    /\ UNCHANGED <<new_dishes, u_builds>>
    /\ UNCHANGED locks
    /\ UNCHANGED <<indexVars, exceptInsert>>

\* vector_store.save_local, first file: index.faiss
InsertSaveFaiss ==
    /\ upc = "save_faiss"
    /\ index_faiss' = u_faiss
    /\ raced' = (raced \/ BuildInterferes)
    /\ upc' = "save_pkl"
    /\ s_overlap' = s_overlap \cup InFlight
    /\ UNCHANGED <<new_dishes, u_faiss, u_pkl, u_builds>>
    /\ UNCHANGED <<dish_collection, index_pkl, bpc, b_vectors, b_metadata, builds,
                   spc, s_faiss, s_pkl>>
    /\ UNCHANGED locks
    /\ UNCHANGED exceptInsert

\* vector_store.save_local, second file: index.pkl
InsertSavePkl ==
    /\ upc = "save_pkl"
    /\ index_pkl' = u_pkl
    /\ raced' = (raced \/ BuildInterferes)
    /\ upc' = "idle"
    /\ s_overlap' = s_overlap \cup InFlight
    /\ UNCHANGED <<new_dishes, u_faiss, u_pkl, u_builds>>
    /\ UNCHANGED <<dish_collection, index_faiss, bpc, b_vectors, b_metadata, builds,
                   spc, s_faiss, s_pkl>>
    /\ locks' = locks \ {"insert"}
    /\ UNCHANGED exceptInsert

\* builds and updates of the index, without readers
NextInsert ==
    \/ AddDish
    \/ BuildRead
    \/ BuildEmbed
    \/ SaveFaiss
    \/ SavePkl
    \/ InsertCall
    \/ InsertLoadFaiss
    \/ InsertLoadPkl
    \/ InsertAdd
    \/ InsertSaveFaiss
    \/ InsertSavePkl

----------------------------------------------------------------------------
\* One call of semantic_retrieve_with_negation(query, restaurant_id)

NoIntent == [positive |-> <<>>, negative |-> <<>>]

InitRetrieve ==
    /\ rpc = "idle"
    /\ query = ""
    /\ restaurant_id = "None"
    /\ llm_content = [parses |-> FALSE, positive |-> <<>>, negative |-> <<>>]
    /\ intents = NoIntent
    /\ raised = FALSE
    /\ pos_hits = <<>>
    /\ neg_hits = <<>>
    /\ cursor = 0
    /\ searched = <<>>
    /\ refined = <<>>

\* the caller's arguments, and the answer the LLM will give
Retrieve(q, rid, content) ==
    /\ rpc = "idle"
    /\ query' = q
    /\ restaurant_id' = rid
    /\ llm_content' = content
    /\ intents' = NoIntent
    /\ raised' = FALSE
    /\ pos_hits' = <<>>
    /\ neg_hits' = <<>>
    /\ cursor' = 0
    /\ searched' = <<>>
    /\ refined' = <<>>
    /\ rpc' = "extract"
    /\ UNCHANGED exceptRetrieve

\* Step 1: intents = extract_query_intent(query)
ExtractIntent ==
    /\ rpc = "extract"
    /\ LET r == extract_query_intent(query, llm_content)
       IN  /\ raised' = r.raised
           /\ intents' = [positive |-> r.positive, negative |-> r.negative]
           /\ rpc' = IF r.raised THEN "error" ELSE "pos"
    /\ cursor' = 0
    /\ UNCHANGED <<query, restaurant_id, llm_content, pos_hits, neg_hits, searched, refined>>
    /\ UNCHANGED exceptRetrieve

\* Step 2: for p in intents.positive: pos_hits.extend(search_dishes(p, restaurant_id))
SearchPositive ==
    /\ rpc = "pos"
    /\ IF cursor < Len(intents.positive)
       THEN /\ pos_hits' = pos_hits \o search_dishes(intents.positive[cursor + 1], restaurant_id)
            /\ searched' = Append(searched, intents.positive[cursor + 1])
            /\ cursor' = cursor + 1
            /\ rpc' = rpc
       ELSE /\ cursor' = 0
            /\ rpc' = "neg"
            /\ UNCHANGED <<pos_hits, searched>>
    /\ UNCHANGED <<query, restaurant_id, llm_content, intents, raised, neg_hits, refined>>
    /\ UNCHANGED exceptRetrieve

\* Step 3: for n in intents.negative: neg_hits.extend(search_dishes(n, restaurant_id))
SearchNegative ==
    /\ rpc = "neg"
    /\ IF cursor < Len(intents.negative)
       THEN /\ neg_hits' = neg_hits \o search_dishes(intents.negative[cursor + 1], restaurant_id)
            /\ searched' = Append(searched, intents.negative[cursor + 1])
            /\ cursor' = cursor + 1
            /\ rpc' = rpc
       ELSE /\ cursor' = 0
            /\ rpc' = "refine"
            /\ UNCHANGED <<neg_hits, searched>>
    /\ UNCHANGED <<query, restaurant_id, llm_content, intents, raised, pos_hits, refined>>
    /\ UNCHANGED exceptRetrieve

\* Steps 4 to 6, and the return
Refine ==
    /\ rpc = "refine"
    /\ refined' = refine_with_centroid(
                      unique_filtered_dishes(filtered_dishes(pos_hits, neg_hits), {}),
                      intents.positive)
    /\ rpc' = "done"
    /\ UNCHANGED <<query, restaurant_id, llm_content, intents, raised, pos_hits,
                   neg_hits, cursor, searched>>
    /\ UNCHANGED exceptRetrieve

\* the caller takes the result and the call's frame is gone; the next call may come
Returned ==
    /\ rpc = "done"
    /\ rpc' = "idle"
    /\ query' = ""
    /\ restaurant_id' = "None"
    /\ llm_content' = [parses |-> FALSE, positive |-> <<>>, negative |-> <<>>]
    /\ intents' = NoIntent
    /\ raised' = FALSE
    /\ pos_hits' = <<>>
    /\ neg_hits' = <<>>
    /\ cursor' = 0
    /\ searched' = <<>>
    /\ refined' = <<>>
    /\ UNCHANGED exceptRetrieve

NextRetrieve ==
    \/ \E q \in Queries, rid \in Restaurants \cup {"None"}, content \in LLMContents :
          Retrieve(q, rid, content)
    \/ ExtractIntent
    \/ SearchPositive
    \/ SearchNegative
    \/ Refine
    \/ Returned

----------------------------------------------------------------------------
\* The LangGraph pipeline that serves one POST /restaurants/search request

Nodes == {"context_resolver", "intent_classifier", "query_part_generator",
          "menu_retriever", "dish_info_retriever", "user_preferences_retriever",
          "format_final_response"}

Retrievers == {"menu_retriever", "dish_info_retriever", "user_preferences_retriever"}

Categories == {"menu_search", "dish_info", "user_preferences", "irrelevant"}

\* the query_parts bucket a retriever node reads
CategoryOf(n) ==
    CASE n = "menu_retriever" -> "menu_search"
      [] n = "dish_info_retriever" -> "dish_info"
      [] OTHER -> "user_preferences"

\* the graph with menu_retriever left without its incoming edge
Edges_unwired ==
    {<<"context_resolver", "intent_classifier">>,
     <<"intent_classifier", "query_part_generator">>,
     <<"query_part_generator", "dish_info_retriever">>,
     <<"query_part_generator", "user_preferences_retriever">>,
     <<"menu_retriever", "format_final_response">>,
     <<"dish_info_retriever", "format_final_response">>,
     <<"user_preferences_retriever", "format_final_response">>}

\* graph.add_edge(...): the edges of the compiled graph
Edges ==
    {<<"context_resolver", "intent_classifier">>,
     <<"intent_classifier", "query_part_generator">>,
     <<"query_part_generator", "menu_retriever">>,
     <<"query_part_generator", "dish_info_retriever">>,
     <<"query_part_generator", "user_preferences_retriever">>,
     <<"menu_retriever", "format_final_response">>,
     <<"dish_info_retriever", "format_final_response">>,
     <<"user_preferences_retriever", "format_final_response">>}

Predecessors(n) == {e[1] : e \in {x \in Edges : x[2] = n}}

\* a node that runs as soon as one of its incoming edges has fired
CanStart_any(n, states) ==
    /\ states[n] = "pending"
    /\ \/ Predecessors(n) = {}
       \/ \E m \in Predecessors(n) : states[m] = "done"

\* LangGraph runs a node once every node with an edge into it has finished
CanStart(n, states) ==
    /\ states[n] = "pending"
    /\ \A m \in Predecessors(n) : states[m] = "done"

ClauseTexts == {"What am I allergic to?", "Show me safe desserts"}

Buckets == SeqsUpTo(ClauseTexts, MaxClauses)

NoQueryParts == [c \in Categories |-> <<>>]

\* what the query part generator can produce for a query of at most MaxClauses parts
QueryPartsChoices ==
    {qp \in [Categories -> Buckets] :
        Len(qp["menu_search"]) + Len(qp["dish_info"])
          + Len(qp["user_preferences"]) + Len(qp["irrelevant"]) <= MaxClauses}

EmptyDict == [c \in {} |-> "ok"]

\* a retriever whose LLM failure is raised to the graph instead of being caught
\* how a service's LLM call can end: with an answer that parses, with an
\* answer that json.loads rejects, or with any other exception
LlmOutcomes == {"ok", "JSONDecodeError", "Exception"}

Failed(llm_fails) == llm_fails # "ok"

\* answer="I encountered an error. Please try again."
GenericAnswer == "fallback"

\* answer=f"Error: {str(e)}"
ErrorDetailAnswer == "Error: str(e)"

FallbackAnswers == {GenericAnswer, ErrorDetailAnswer}

handler_raising(bucket, llm_fails) ==
    [raised |-> Failed(llm_fails),
     retry |-> FALSE,
     results |-> [c \in Range(bucket) |-> "ok"]]

\* a retriever whose LLM failure makes the graph run the request again
handler_retrying(bucket, llm_fails) ==
    [raised |-> FALSE,
     retry |-> Failed(llm_fails),
     results |-> [c \in Range(bucket) |-> "ok"]]

\* a retriever's service: one result per query of its bucket, keyed by the query
\* text; a failing LLM call is caught and answered with the fallback result
handler(bucket, llm_fails) ==
    [raised |-> FALSE,
     retry |-> FALSE,
     results |-> [c \in Range(bucket) |->
                    CASE llm_fails = "JSONDecodeError" -> GenericAnswer
                      [] llm_fails = "Exception" -> ErrorDetailAnswer
                      [] OTHER -> "ok"]]

\* the keys of a results dict in the order the bucket inserted them
RECURSIVE DictKeys(_, _)
DictKeys(bucket, seen) ==
    IF bucket = <<>> THEN <<>>
    ELSE IF Head(bucket) \in seen THEN DictKeys(Tail(bucket), seen)
    ELSE <<Head(bucket)>> \o DictKeys(Tail(bucket), seen \cup {Head(bucket)})

\* for query, res in results.items(): responses.append(QueryResponse(...))
QueryResponses(bucket, results, type) ==
    LET keys == SelectSeq(DictKeys(bucket, {}), LAMBDA k : k \in DOMAIN results)
    IN  [i \in DOMAIN keys |-> [query |-> keys[i], type |-> type, result |-> results[keys[i]]]]

format_final_response(parts, menu, info, pref) ==
    QueryResponses(parts["menu_search"], menu, "menu_search")
      \o QueryResponses(parts["dish_info"], info, "dish_info")
      \o QueryResponses(parts["user_preferences"], pref, "user_preferences")
      \o QueryResponses(parts["irrelevant"],
                        [c \in Range(parts["irrelevant"]) |-> "irrelevant"], "irrelevant")

\* the status of the response: partial once a category handler failed
response_status(failed) == IF failed = {} THEN "success" ELSE "partial"

\* the request body as SearchChat builds it: the query, and no session id
Requests == [query : ClauseTexts \cup {"None"}, session_id : {"None"}]

NoRequest == [query |-> "None", session_id |-> "None"]

\* class ChatQuery(BaseModel): query is the one required field, and the model
\* has no session_id field
ChatQuery(r) == r.query # "None"

\* state.context: the user's allergens come first
ChatContext ==
    << [user_allergens |-> << "peanuts", "dairy", "shellfish" >>,
        message |-> "User is allergic to: peanuts, dairy, shellfish"] >>

\* what the resolver's LLM can answer: the query as it is, or the query
\* rewritten with what the context holds
Rewritten(q) ==
    CASE q = "What am I allergic to?" -> "Which dishes contain peanuts or dairy?"
      [] OTHER -> "Show me desserts without peanuts or dairy"

ResolverOutputs(q, ctx) == IF ctx = <<>> THEN {q} ELSE {q, Rewritten(q)}

ResolvedQueries == UNION {ResolverOutputs(q, ChatContext) : q \in ClauseTexts}

\* what the classifier's LLM can answer: a dict of the four categories, or
\* text that does not parse
ClassifierOutputs ==
    {[parses |-> FALSE, parts |-> NoQueryParts]}
    \cup {[parses |-> TRUE, parts |-> p] : p \in QueryPartsChoices}

\* a classifier that sends an unparseable query to the menu search
classify_to_menu(q, out) ==
    IF out.parses THEN out.parts
    ELSE [NoQueryParts EXCEPT !["menu_search"] = <<q>>]

\* the classifier's result: the LLM's dict, or on malformed output the whole
\* query as irrelevant
classify(q, out) ==
    IF out.parses THEN out.parts
    ELSE [NoQueryParts EXCEPT !["irrelevant"] = <<q>>]

\* the stages that failed in this request
FailedStages == llm_failed \cup (IF classifier_failed THEN {"intent_classifier"} ELSE {})

InitPipeline ==
    /\ request = NoRequest
    /\ resolved_query = "None"
    /\ chat_intents = NoQueryParts
    /\ classifier_failed = FALSE
    /\ ppc = "idle"
    /\ node = [n \in Nodes |-> "pending"]
    /\ query_parts = NoQueryParts
    /\ llm_failed = {}
    /\ menu_results = EmptyDict
    /\ info_results = EmptyDict
    /\ preference_results = EmptyDict
    /\ responses = <<>>
    /\ status = "pending"
    /\ caller_gone = FALSE

\* POST /restaurants/search arrives and the router calls graph.invoke(state)
Receive(r) ==
    /\ ppc = "idle"
    /\ request' = r
    /\ IF ChatQuery(r)
       THEN /\ ppc' = "invoked"
            /\ UNCHANGED status
       ELSE /\ ppc' = "rejected"
            /\ status' = "error"
    /\ UNCHANGED <<resolved_query, chat_intents, classifier_failed>>
    /\ UNCHANGED <<node, query_parts, llm_failed, menu_results, info_results,
                   preference_results, responses, caller_gone>>
    /\ UNCHANGED exceptPipeline

\* the caller stops waiting: the page that issued the fetch is left, and the
\* fetch carries no AbortSignal and no timeout
Disconnect ==
    /\ ppc = "invoked"
    /\ ~caller_gone
    /\ caller_gone' = TRUE
    /\ UNCHANGED <<ppc, node, query_parts, llm_failed, menu_results, info_results,
                   preference_results, responses, status>>
    /\ UNCHANGED reqVars
    /\ UNCHANGED exceptPipeline

\* the graph schedules a node
StartNode(n) ==
    /\ ppc = "invoked"
    /\ CanStart(n, node)
    /\ node' = [node EXCEPT ![n] = "running"]
    /\ UNCHANGED <<ppc, query_parts, llm_failed, menu_results, info_results,
                   preference_results, responses, status, caller_gone>>
    /\ UNCHANGED reqVars
    /\ UNCHANGED exceptPipeline

\* the nodes whose service calls the LLM
LlmNodes == {"context_resolver", "intent_classifier"} \cup Retrievers

\* response = llm.invoke(prompt) of a node's service never returns: the node
\* waits, and nothing ends the wait
LlmNeverResponds(n) ==
    /\ ppc = "invoked"
    /\ n \in LlmNodes
    /\ node[n] = "running"
    /\ node' = [node EXCEPT ![n] = "waiting"]
    /\ UNCHANGED <<ppc, query_parts, llm_failed, menu_results, info_results,
                   preference_results, responses, status, caller_gone>>
    /\ UNCHANGED reqVars
    /\ UNCHANGED exceptPipeline

\* the LLM resolves the query against the context
ContextResolver(out) ==
    /\ ppc = "invoked"
    /\ node["context_resolver"] = "running"
    /\ out \in ResolverOutputs(request.query, ChatContext)
    /\ resolved_query' = out
    /\ UNCHANGED <<request, chat_intents, classifier_failed>>
    /\ node' = [node EXCEPT !["context_resolver"] = "done"]
    /\ UNCHANGED <<ppc, query_parts, llm_failed, menu_results, info_results,
                   preference_results, responses, status, caller_gone>>
    /\ UNCHANGED exceptPipeline

\* the LLM classifies the parts of the resolved query
IntentClassifier(out) ==
    /\ ppc = "invoked"
    /\ node["intent_classifier"] = "running"
    /\ chat_intents' = classify(resolved_query, out)
    /\ classifier_failed' = ~out.parses
    /\ UNCHANGED <<request, resolved_query>>
    /\ node' = [node EXCEPT !["intent_classifier"] = "done"]
    /\ UNCHANGED <<ppc, query_parts, llm_failed, menu_results, info_results,
                   preference_results, responses, status, caller_gone>>
    /\ UNCHANGED exceptPipeline

\* state.query_parts: the classified parts of the query by category
QueryPartGenerator ==
    /\ ppc = "invoked"
    /\ node["query_part_generator"] = "running"
    /\ query_parts' = chat_intents
    /\ UNCHANGED reqVars
    /\ node' = [node EXCEPT !["query_part_generator"] = "done"]
    /\ UNCHANGED <<ppc, llm_failed, menu_results, info_results,
                   preference_results, responses, status, caller_gone>>
    /\ UNCHANGED exceptPipeline

\* a retriever node returns: its results are stored, or, were its exception to
\* leave the node, graph.invoke fails and the request is answered with an error
RetrieverDone(n, llm_fails, r) ==
    /\ ppc = "invoked"
    /\ node[n] = "running"
    /\ Failed(llm_fails) => query_parts[CategoryOf(n)] # <<>>
    /\ llm_failed' = IF Failed(llm_fails) THEN llm_failed \cup {n} ELSE llm_failed
    /\ IF r.raised
       THEN /\ ppc' = "returned"
            /\ status' = "error"
            /\ UNCHANGED node
       ELSE /\ node' = IF r.retry THEN [m \in Nodes |-> "pending"]
                       ELSE [node EXCEPT ![n] = "done"]
            /\ UNCHANGED <<ppc, status>>
    /\ UNCHANGED <<query_parts, responses, caller_gone>>
    /\ UNCHANGED reqVars
    /\ UNCHANGED exceptPipeline

MenuRetriever(llm_fails) ==
    LET r == handler(query_parts["menu_search"], llm_fails)
    IN  /\ RetrieverDone("menu_retriever", llm_fails, r)
        /\ menu_results' = IF r.raised THEN menu_results ELSE r.results
        /\ UNCHANGED <<info_results, preference_results>>

DishInfoRetriever(llm_fails) ==
    LET r == handler(query_parts["dish_info"], llm_fails)
    IN  /\ RetrieverDone("dish_info_retriever", llm_fails, r)
        /\ info_results' = IF r.raised THEN info_results ELSE r.results
        /\ UNCHANGED <<menu_results, preference_results>>

UserPreferencesRetriever(llm_fails) ==
    LET r == handler(query_parts["user_preferences"], llm_fails)
    IN  /\ RetrieverDone("user_preferences_retriever", llm_fails, r)
        /\ preference_results' = IF r.raised THEN preference_results ELSE r.results
        /\ UNCHANGED <<menu_results, info_results>>

FormatFinalResponse ==
    /\ ppc = "invoked"
    /\ node["format_final_response"] = "running"
    /\ responses' = format_final_response(query_parts, menu_results, info_results,
                                          preference_results)
    /\ status' = response_status(FailedStages)
    /\ node' = [node EXCEPT !["format_final_response"] = "done"]
    /\ UNCHANGED reqVars
    /\ UNCHANGED <<ppc, query_parts, llm_failed, menu_results, info_results,
                   preference_results, caller_gone>>
    /\ UNCHANGED exceptPipeline

\* graph.invoke returns and the router sends the response
Return ==
    /\ ppc = "invoked"
    /\ node["format_final_response"] = "done"
    /\ ppc' = "returned"
    /\ UNCHANGED reqVars
    /\ UNCHANGED <<node, query_parts, llm_failed, menu_results, info_results,
                   preference_results, responses, status, caller_gone>>
    /\ UNCHANGED exceptPipeline

NextPipeline ==
    \/ \E r \in Requests : Receive(r)
    \/ Disconnect
    \/ \E n \in Nodes : StartNode(n)
    \/ \E out \in ResolvedQueries : ContextResolver(out)
    \/ \E out \in ClassifierOutputs : IntentClassifier(out)
    \/ QueryPartGenerator
    \/ \E llm_fails \in LlmOutcomes : MenuRetriever(llm_fails)
    \/ \E llm_fails \in LlmOutcomes : DishInfoRetriever(llm_fails)
    \/ \E llm_fails \in LlmOutcomes : UserPreferencesRetriever(llm_fails)
    \/ FormatFinalResponse
    \/ Return
    \/ \E n \in Nodes : LlmNeverResponds(n)

\* the steps the server takes by itself once a request is in the graph
GraphStep ==
    \/ \E n \in Nodes : StartNode(n)
    \/ \E out \in ResolvedQueries : ContextResolver(out)
    \/ \E out \in ClassifierOutputs : IntentClassifier(out)
    \/ QueryPartGenerator
    \/ \E llm_fails \in LlmOutcomes : MenuRetriever(llm_fails)
    \/ \E llm_fails \in LlmOutcomes : DishInfoRetriever(llm_fails)
    \/ \E llm_fails \in LlmOutcomes : UserPreferencesRetriever(llm_fails)
    \/ FormatFinalResponse
    \/ Return

----------------------------------------------------------------------------
\* Chat sessions: the router's steps around graph.invoke, for concurrent requests

Invocations == 1 .. NumInvocations

\* payload.user_id: a user's id, or "None" when the frontend omits it
UserIds == {"None", "user_1"}

Payloads == [user_id : UserIds, restaurant_id : Restaurants]

NoPayload == [user_id |-> "None", restaurant_id |-> "None"]

\* db.sessions holds one session per (user_id, restaurant_id)
get_or_create_session(user_id, rid) == <<user_id, rid>>

SessionIds == {get_or_create_session(u, r) : u \in {"guest", "user_1"}, r \in Restaurants}

\* a rebuild_context that adds every previous chat state
rebuild_context_all(states, n) == states

\* the part of rebuild_context that reads the session's previous chat states
rebuild_context(states, n) ==
    IF Len(states) <= n THEN states
    ELSE SubSeq(states, Len(states) - n + 1, Len(states))

InitSessions ==
    /\ ipc = [k \in Invocations |-> "none"]
    /\ payload = [k \in Invocations |-> NoPayload]
    /\ session_id = [k \in Invocations |-> "none"]
    /\ context = [k \in Invocations |-> <<>>]
    /\ chat_states = [s \in SessionIds |-> <<>>]

\* a POST /restaurants/search request arrives
Post(k, p) ==
    /\ ipc[k] = "none"
    /\ payload' = [payload EXCEPT ![k] = p]
    /\ ipc' = [ipc EXCEPT ![k] = "received"]
    /\ UNCHANGED <<session_id, context, chat_states>>
    /\ UNCHANGED exceptSessions

\* user_id = payload.user_id or "guest"; session_id = get_or_create_session(...)
GetOrCreateSession(k) ==
    /\ ipc[k] = "received"
    /\ LET user_id == IF payload[k].user_id = "None" THEN "guest" ELSE payload[k].user_id
       IN  session_id' = [session_id EXCEPT
                             ![k] = get_or_create_session(user_id, payload[k].restaurant_id)]
    /\ ipc' = [ipc EXCEPT ![k] = "session"]
    /\ UNCHANGED <<payload, context, chat_states>>
    /\ UNCHANGED exceptSessions

\* context = state_service.rebuild_context(session_id, ...)
RebuildContext(k) ==
    /\ ipc[k] = "session"
    /\ context' = [context EXCEPT ![k] = rebuild_context(chat_states[session_id[k]], last_n)]
    /\ ipc' = [ipc EXCEPT ![k] = "context"]
    /\ UNCHANGED <<payload, session_id, chat_states>>
    /\ UNCHANGED exceptSessions

\* the pipeline runs on the ChatState built from the context
GraphInvoke(k) ==
    /\ ipc[k] = "context"
    /\ ipc' = [ipc EXCEPT ![k] = "invoked"]
    /\ UNCHANGED <<payload, session_id, context, chat_states>>
    /\ UNCHANGED exceptSessions

\* the turn's ChatState is stored in db.chat_states under its session_id
SaveChatState(k) ==
    /\ ipc[k] = "invoked"
    /\ chat_states' = [chat_states EXCEPT
                          ![session_id[k]] = Append(chat_states[session_id[k]], k)]
    /\ ipc' = [ipc EXCEPT ![k] = "saved"]
    /\ UNCHANGED <<payload, session_id, context>>
    /\ UNCHANGED exceptSessions

NextSessions ==
    \/ \E k \in Invocations, p \in Payloads : Post(k, p)
    \/ \E k \in Invocations : GetOrCreateSession(k)
    \/ \E k \in Invocations : RebuildContext(k)
    \/ \E k \in Invocations : GraphInvoke(k)
    \/ \E k \in Invocations : SaveChatState(k)

----------------------------------------------------------------------------
\* rebuild_context over the turns of one session

\* the user documents: no user_id, a user without and with allergen_preferences
UserDocs == {"None", "no_prefs", "allergic"}

\* context.append({"user_allergens": ..., "message": ...}) for a user with
\* allergen preferences
allergen_entry(doc) == IF doc = "allergic" THEN ChatContext ELSE <<>>

\* a previous chat state as an entry of the context
turn_entry(t) == [query |-> t]

\* rebuild_context(session_id, user_id, last_n): the allergens first, then
\* the previous chat states
rebuild_context_for(states, doc, n) ==
    LET kept == rebuild_context(states, n)
    IN  allergen_entry(doc) \o [i \in DOMAIN kept |-> turn_entry(kept[i])]

InitContext ==
    /\ stored_states = <<>>
    /\ user_doc = "None"
    /\ rebuilt = <<>>
    /\ cxpc = "idle"

\* a turn of the session is saved
StoreTurn(t) ==
    /\ cxpc = "idle"
    /\ Len(stored_states) < MaxTurns
    /\ stored_states' = Append(stored_states, t)
    /\ UNCHANGED <<user_doc, rebuilt, cxpc>>
    /\ UNCHANGED exceptContext

\* context = state_service.rebuild_context(session_id, user_id)
CallRebuildContext(doc) ==
    /\ cxpc = "idle"
    /\ user_doc' = doc
    /\ rebuilt' = rebuild_context_for(stored_states, doc, last_n)
    /\ cxpc' = "rebuilt"
    /\ UNCHANGED stored_states
    /\ UNCHANGED exceptContext

\* the context has gone to the graph; the session is ready for its next turn
ContextUsed ==
    /\ cxpc = "rebuilt"
    /\ cxpc' = "idle"
    /\ UNCHANGED <<stored_states, user_doc, rebuilt>>
    /\ UNCHANGED exceptContext

NextContext ==
    \/ \E t \in ClauseTexts : StoreTurn(t)
    \/ \E doc \in UserDocs : CallRebuildContext(doc)
    \/ ContextUsed

----------------------------------------------------------------------------
\* The SearchChat page: handleSendMessage

\* what the user can have in the textarea
Inputs == {"", " ", "pizza", " pizza "}

\* inputValue.trim()
trim(v) ==
    CASE v = " " -> ""
      [] v = " pizza " -> "pizza"
      [] OTHER -> v

\* a handler without the early return
blocked_never(value, loading) == FALSE

\* if (!inputValue.trim() || isLoading) return;
blocked(value, loading) == trim(value) = "" \/ loading

\* what the server can answer: the status and the kind of body
HttpStatuses == {200, 404, 500}

Bodies == {"results", "empty", "error", "html"}

Responses == [status : HttpStatuses, body : Bodies]

\* the assistant's text for a response whose body has been read: the catch
\* block's text when the body is not JSON or the status is not ok, the
\* results or the fallback text otherwise
assistant_content(resp) ==
    IF resp.body = "html" THEN "error: invalid response format"
    ELSE IF resp.status # 200
         THEN (CASE resp.body = "error" -> "error: message"
                 [] resp.status = 404 -> "error: endpoint not found"
                 [] OTHER -> "error: server error")
    ELSE IF resp.body = "results" THEN "results"
    ELSE "no results"

\* the catch block's text when fetch rejects
NetworkErrorContent == "error: could not connect"

\* a handler whose loading flag is left as it is
finally_skipped(loading) == loading

\* finally { setIsLoading(false); }
finally(loading) == FALSE

Message(type, content) == [type |-> type, content |-> content]

\* a sequence without its i-th element
RemoveAt(seq, i) == SubSeq(seq, 1, i - 1) \o SubSeq(seq, i + 1, Len(seq))

InitChat ==
    /\ messages = <<>>
    /\ inputValue = ""
    /\ isLoading = FALSE
    /\ fetches = <<>>
    /\ requests = 0

\* handleInputChange: the textarea is disabled while isLoading
InputChange(v) ==
    /\ ~isLoading
    /\ inputValue' = v
    /\ UNCHANGED <<messages, isLoading, fetches, requests>>
    /\ UNCHANGED exceptChat

\* handleSendMessage up to the fetch call, on a click on Send or on Enter
SendMessage ==
    /\ requests < MaxMessages
    /\ IF blocked(inputValue, isLoading)
       THEN UNCHANGED <<messages, inputValue, isLoading, fetches, requests>>
       ELSE /\ messages' = Append(messages, Message("user", trim(inputValue)))
            /\ inputValue' = ""
            /\ isLoading' = TRUE
            /\ fetches' = Append(fetches, [pc |-> "fetch", status |-> 0, body |-> "none"])
            /\ requests' = requests + 1
    /\ UNCHANGED exceptChat

\* await fetch(...) resolves with a response
FetchResolves(i, resp) ==
    /\ i \in DOMAIN fetches
    /\ fetches[i].pc = "fetch"
    /\ fetches' = [fetches EXCEPT ![i] = [pc |-> "text", status |-> resp.status,
                                           body |-> resp.body]]
    /\ UNCHANGED <<messages, inputValue, isLoading, requests>>
    /\ UNCHANGED exceptChat

\* await fetch(...) rejects: catch, then finally
FetchRejects(i) ==
    /\ i \in DOMAIN fetches
    /\ fetches[i].pc = "fetch"
    /\ messages' = Append(messages, Message("assistant", NetworkErrorContent))
    /\ isLoading' = finally(isLoading)
    /\ fetches' = RemoveAt(fetches, i)
    /\ UNCHANGED <<inputValue, requests>>
    /\ UNCHANGED exceptChat

\* await response.text() resolves: the rest of try, or catch, then finally
TextResolves(i) ==
    /\ i \in DOMAIN fetches
    /\ fetches[i].pc = "text"
    /\ messages' = Append(messages, Message("assistant", assistant_content(fetches[i])))
    /\ isLoading' = finally(isLoading)
    /\ fetches' = RemoveAt(fetches, i)
    /\ UNCHANGED <<inputValue, requests>>
    /\ UNCHANGED exceptChat

FetchSettles ==
    \E i \in 1 .. MaxMessages :
        \/ \E resp \in Responses : FetchResolves(i, resp)
        \/ FetchRejects(i)

TextSettles == \E i \in 1 .. MaxMessages : TextResolves(i)

NextChat ==
    \/ \E v \in Inputs : InputChange(v)
    \/ SendMessage
    \/ \E i \in 1 .. MaxMessages : \E resp \in Responses : FetchResolves(i, resp)
    \/ \E i \in 1 .. MaxMessages : FetchRejects(i)
    \/ \E i \in 1 .. MaxMessages : TextResolves(i)

----------------------------------------------------------------------------
\* The Login page (handleSubmit) and the Dashboard's check on mount

Usernames == {"alice", "bob", "carol"}

\* str(user["_id"]): the server's token of a user
UserToken(u) ==
    CASE u = "alice" -> "id_alice"
      [] u = "bob" -> "id_bob"
      [] OTHER -> "id_carol"

\* the answers to POST /users/login: an error, or a body that carries the
\* token under the key the server uses (access_token) or under token
TokenKeys == {"access_token", "token"}

LoginResults(u) ==
    {[ok |-> FALSE, key |-> "detail", value |-> "Invalid credentials"]}
    \cup {[ok |-> TRUE, key |-> k, value |-> UserToken(u)] : k \in TokenKeys}

NoLoginResult == [ok |-> FALSE, key |-> "none", value |-> "none"]

\* result.token
result_token(result) == IF result.key = "token" THEN result.value ELSE "undefined"

EmptyStorage == [authToken |-> "null", username |-> "null"]

InitLogin ==
    /\ route = "/login"
    /\ username = ""
    /\ isSubmitting = FALSE
    /\ localStorage = EmptyStorage
    /\ login_result = NoLoginResult
    /\ dashboard_checked = FALSE
    /\ logins = 0

\* setUsername(e.target.value)
SetUsername(u) ==
    /\ route = "/login"
    /\ ~isSubmitting
    /\ username' = u
    /\ UNCHANGED <<route, isSubmitting, localStorage, login_result, dashboard_checked, logins>>
    /\ UNCHANGED exceptLogin

\* handleSubmit up to await fetch
Submit ==
    /\ route = "/login"
    /\ ~isSubmitting
    /\ username \in Usernames
    /\ logins < MaxLogins
    /\ logins' = logins + 1
    /\ isSubmitting' = TRUE
    /\ login_result' = NoLoginResult
    /\ dashboard_checked' = FALSE
    /\ UNCHANGED <<route, username, localStorage>>
    /\ UNCHANGED exceptLogin

\* the rest of handleSubmit once the server has answered
LoginResponse(result) ==
    /\ isSubmitting
    /\ result \in LoginResults(username)
    /\ login_result' = result
    /\ IF result.ok
       THEN /\ localStorage' =
                 [authToken |-> IF result_token(result) # "undefined"
                                THEN result_token(result) ELSE localStorage.authToken,
                  username |-> username]
            /\ route' = "/dashboard"
       ELSE UNCHANGED <<localStorage, route>>
    /\ isSubmitting' = FALSE
    /\ UNCHANGED <<username, dashboard_checked, logins>>
    /\ UNCHANGED exceptLogin

\* fetchUserData on the Dashboard's mount: without authToken, back to /login
DashboardMount ==
    /\ route = "/dashboard"
    /\ ~dashboard_checked
    /\ dashboard_checked' = TRUE
    /\ route' = IF localStorage.authToken = "null" THEN "/login" ELSE route
    /\ UNCHANGED <<username, isSubmitting, localStorage, login_result, logins>>
    /\ UNCHANGED exceptLogin

\* the user opens the login page again
OpenLogin ==
    /\ route = "/dashboard"
    /\ dashboard_checked
    /\ route' = "/login"
    /\ UNCHANGED <<username, isSubmitting, localStorage, login_result, dashboard_checked, logins>>
    /\ UNCHANGED exceptLogin

\* the browser's storage is cleared
ClearStorage ==
    /\ localStorage # EmptyStorage
    /\ ~isSubmitting
    /\ localStorage' = EmptyStorage
    /\ UNCHANGED <<route, username, isSubmitting, login_result, dashboard_checked, logins>>
    /\ UNCHANGED exceptLogin

NextLogin ==
    \/ \E u \in Usernames \cup {""} : SetUsername(u)
    \/ Submit
    \/ \E u \in Usernames : \E result \in LoginResults(u) : LoginResponse(result)
    \/ DashboardMount
    \/ OpenLogin
    \/ ClearStorage

----------------------------------------------------------------------------
\* Specifications

Init ==
    InitIndex /\ InitInsert /\ InitRetrieve /\ InitPipeline /\ InitSessions /\ InitContext
      /\ InitChat /\ InitLogin

\* the index under rebuild, with concurrent readers
SpecIndex == Init /\ [][NextIndex]_vars

\* retrieval over the index that startup built
SpecRetrieve == Init /\ [][NextRetrieve]_vars

\* the index under rebuilds and incremental updates
SpecInsert == Init /\ [][NextInsert]_vars

\* one request through the LangGraph pipeline
SpecPipeline == Init /\ [][NextPipeline]_vars

\* concurrent requests and their sessions
SpecSessions == Init /\ [][NextSessions]_vars

\* one session's turns and rebuild_context
SpecContext == Init /\ [][NextContext]_vars

\* the graph when the server keeps taking its steps
SpecPipelineLive == SpecPipeline /\ WF_vars(GraphStep)

\* the Login and Dashboard pages
SpecLogin == Init /\ [][NextLogin]_vars

\* the SearchChat page
SpecChat == Init /\ [][NextChat]_vars

\* the SearchChat page, when every fetch and every read of a body settles
SpecChatLive == SpecChat /\ WF_vars(FetchSettles) /\ WF_vars(TextSettles)

Next ==
    NextIndex \/ NextInsert \/ NextRetrieve \/ NextPipeline \/ NextSessions \/ NextContext
      \/ NextChat \/ NextLogin

Spec == Init /\ [][Next]_vars

----------------------------------------------------------------------------
\* Properties of retrieval (SpecRetrieve)

HitDishes(hits) == {hits[i].dish : i \in DOMAIN hits}

\* C1: negation hard-veto.  Every dish that some negative-term search returned
\* (a dish in neg_hits) is absent from the result of the retrieval, also when a
\* positive-term search returned it too.
C1_NegationHardVeto ==
    rpc = "done" => HitDishes(refined) \cap HitDishes(neg_hits) = {}

\* C1's case: a dish returned by a positive and by a negative search is vetoed
\* while another dish is returned.
C1_Witness ==
    /\ rpc = "done"
    /\ HitDishes(pos_hits) \cap HitDishes(neg_hits) # {}
    /\ refined # <<>>

\* C9: a retrieval of the empty clause returns the empty result and makes no
\* call of search_dishes.
C9_EmptyClauseNoSearch ==
    (rpc = "done" /\ query = "") => (refined = <<>> /\ searched = <<>>)

\* C10: when the LLM's answer does not parse, extract_query_intent gives exactly
\* {positive: [query], negative: []} and raises nothing; the value depends on the
\* query alone, so it is the same every time.
C10_ExtractionFallback ==
    (rpc \in {"pos", "neg", "refine", "done", "error"} /\ ~llm_content.parses)
        => /\ intents = [positive |-> <<query>>, negative |-> <<>>]
           /\ ~raised
           /\ rpc # "error"

\* C10's case: the fallback has been taken for a non-empty query and its single
\* positive term searched.
C10_Witness ==
    /\ rpc = "done"
    /\ ~llm_content.parses
    /\ query = "pasta without nuts"
    /\ searched = <<"pasta without nuts">>

\* a == b for fractions with positive denominators
FracEQ(a, b) == a[1] * b[2] = b[1] * a[2]

\* the similarity of an embedding to the centroid of the call's positive intents
CentroidSim(embedding) == cosine_similarity(centroid(intents.positive), embedding)

\* C11: centroid threshold.  Every hit of the returned list has a
\* centroid_similarity, that of its embedding to the centroid of the positive
\* intents, strictly greater than 0.30; a hit whose similarity is exactly 0.30
\* is not returned.
C11_CentroidThresholdStrict ==
    rpc = "done" =>
        \A i \in DOMAIN refined :
            /\ refined[i].centroid_similarity = CentroidSim(refined[i].embedding)
            /\ FracGT(refined[i].centroid_similarity, <<9, 100>>)

C11_Witness ==
    /\ rpc = "done"
    /\ refined # <<>>
    /\ \E i \in DOMAIN pos_hits :
          /\ pos_hits[i].dish \notin HitDishes(neg_hits)
          /\ FracEQ(CentroidSim(pos_hits[i].embedding), <<9, 100>>)
          /\ pos_hits[i].dish \notin HitDishes(refined)

\* the dishes of the index that a search for term t has to return
Matching(t) ==
    {index_pkl[k].dish_id : k \in
        {k \in DOMAIN index_pkl :
            /\ restaurant_id \in {"None", index_pkl[k].restaurant_id}
            /\ FracGE(cosine_similarity(embed_query(t), index_faiss[k]), <<64, 100>>)}}

\* C12: search threshold.  Every hit a search returned has a raw score of at
\* least 0.8, and every dish of the searched restaurant whose score for a
\* searched positive term is at least 0.8, exactly 0.8 included, is among the
\* positive hits.
C12_SearchThresholdInclusive ==
    rpc = "done" =>
        /\ \A i \in DOMAIN pos_hits : FracGE(pos_hits[i].score, <<64, 100>>)
        /\ \A i \in DOMAIN neg_hits : FracGE(neg_hits[i].score, <<64, 100>>)
        /\ \A i \in DOMAIN intents.positive :
               Matching(intents.positive[i]) \subseteq HitDishes(pos_hits)

C12_Witness ==
    /\ rpc = "done"
    /\ \E i \in DOMAIN pos_hits : FracEQ(pos_hits[i].score, <<64, 100>>)

\* C13: centroid monotonicity.  The returned list is sorted by
\* centroid_similarity in descending order: of two adjacent entries the first
\* has a centroid_similarity at least that of the second, whatever their raw
\* scores are.
C13_SortedByCentroid ==
    rpc = "done" =>
        \A i \in 1 .. Len(refined) - 1 :
            FracGE(refined[i].centroid_similarity, refined[i + 1].centroid_similarity)

C13_Witness ==
    /\ rpc = "done"
    /\ \E i \in 1 .. Len(refined) - 1 :
          /\ FracGT(refined[i].centroid_similarity, refined[i + 1].centroid_similarity)
          /\ FracGT(refined[i + 1].score, refined[i].score)

\* the position of a dish's first hit in pos_hits
FirstHit(d) == CHOOSE j \in DOMAIN pos_hits :
                  /\ pos_hits[j].dish = d
                  /\ \A k \in 1 .. j - 1 : pos_hits[k].dish # d

\* C14: deduplication.  The returned list holds every dish at most once, and
\* the hit kept for a dish that several positive searches returned is its
\* first occurrence in pos_hits.
C14_DedupeFirstOccurrence ==
    rpc = "done" =>
        /\ \A i, j \in DOMAIN refined : refined[i].dish = refined[j].dish => i = j
        /\ \A i \in DOMAIN refined :
               /\ refined[i].dish \in HitDishes(pos_hits)
               /\ refined[i].score = pos_hits[FirstHit(refined[i].dish)].score

C14_Witness ==
    /\ rpc = "done"
    /\ \E i \in DOMAIN refined : \E j, k \in DOMAIN pos_hits :
          /\ j < k
          /\ pos_hits[j].dish = refined[i].dish
          /\ pos_hits[k].dish = refined[i].dish
          /\ pos_hits[j].score # pos_hits[k].score
          /\ refined[i].score = pos_hits[j].score

----------------------------------------------------------------------------
\* Properties of the index under rebuild (SpecIndex)

\* an index as one build wrote it: every vector is the vector of its metadata's dish
CompleteIndex(faiss, pkl) ==
    /\ Len(faiss) = Len(pkl)
    /\ \A k \in DOMAIN pkl :
          /\ pkl[k].vector_id = k - 1
          /\ faiss[k] = DishEmb(pkl[k].dish_id)

HasLoaded(i) == spc[i] \in {"loaded", "returned"}

\* C2: no search ever reads a partially built index: what a search has loaded is
\* the complete index of one build.
C2_NoPartialIndex ==
    \A i \in Searchers : HasLoaded(i) => CompleteIndex(s_faiss[i], s_pkl[i])

\* C3: the searches in flight during one rebuild all complete on one single
\* snapshot, all the old index or all the new one.
C3_SingleSnapshot ==
    (/\ builds = 1
     /\ bpc = "idle"
     /\ s_overlap = Searchers
     /\ \A i \in Searchers : spc[i] = "returned")
        => \A i, j \in Searchers :
              /\ CompleteIndex(s_faiss[i], s_pkl[i])
              /\ s_faiss[i] = s_faiss[j]
              /\ s_pkl[i] = s_pkl[j]

\* C24: scope restriction.  When the retrieval is given a restaurant, every
\* hit of every search and every dish of the result belongs to that
\* restaurant.
C24_ScopeRestriction ==
    (rpc = "done" /\ restaurant_id # "None")
      => \A d \in HitDishes(pos_hits) \cup HitDishes(neg_hits) \cup HitDishes(refined) :
             DishRestaurant(d) = restaurant_id

C24_Witness ==
    /\ rpc = "done"
    /\ restaurant_id # "None"
    /\ refined # <<>>
    /\ \E i \in DOMAIN intents.positive : \E k \in DOMAIN index_pkl :
          /\ index_pkl[k].restaurant_id # restaurant_id
          /\ FracGE(cosine_similarity(embed_query(intents.positive[i]), index_faiss[k]),
                    SqThreshold(ThresholdNum, ThresholdDen))

----------------------------------------------------------------------------
\* Properties of the pipeline (SpecPipeline)

\* the stages Received, ContextResolved, Classified, Dispatched, Merged, Done as 0 .. 5
StageRank ==
    IF ppc = "returned" THEN 5
    ELSE IF node["format_final_response"] = "done" THEN 4
    ELSE IF \E n \in Retrievers : node[n] # "pending" THEN 3
    ELSE IF node["query_part_generator"] = "done" THEN 2
    ELSE IF node["context_resolver"] = "done" THEN 1
    ELSE 0

\* C4: stage order.  A request passes the stages Received, ContextResolved,
\* Classified, Dispatched, Merged, Done in that order: every step of the
\* pipeline keeps the stage or moves it to the next one, never skipping a
\* stage and never going back.
C4_StageOrder == [][StageRank' \in {StageRank, StageRank + 1}]_vars

C4_Witness ==
    /\ StageRank = 5
    /\ responses # <<>>

Entries(t, c) == {i \in DOMAIN responses : responses[i].query = t /\ responses[i].type = c}

C8_CancellationPropagates ==
    [][caller_gone => /\ node' = node
                      /\ menu_results' = menu_results
                      /\ info_results' = info_results
                      /\ preference_results' = preference_results
                      /\ responses' = responses
                      /\ ppc' # "returned"]_vars

PoliteRejection(q) == [query |-> q, type |-> "irrelevant", result |-> "irrelevant"]

\* C17: classifier fallback.  When the classifier's output is malformed the
\* classification raises no error: the whole resolved query is the only
\* entry of the irrelevant category, every other category is empty, and the
\* request is answered with the polite rejection only and not with an error.
C17_ClassifierFallback ==
    (node["intent_classifier"] = "done" /\ classifier_failed)
      => /\ chat_intents["irrelevant"] = <<resolved_query>>
         /\ \A c \in Categories \ {"irrelevant"} : chat_intents[c] = <<>>
         /\ ppc # "rejected"
         /\ node["query_part_generator"] = "done" => query_parts = chat_intents
         /\ ppc = "returned" => /\ status # "error"
                                /\ responses = <<PoliteRejection(resolved_query)>>

C17_Witness ==
    /\ ppc = "returned"
    /\ classifier_failed
    /\ llm_failed = {}
    /\ responses = <<PoliteRejection("What am I allergic to?")>>

\* the clauses that ask about the user's own stored attributes
SelfPreferenceClauses == {"What am I allergic to?"}

\* C18: self-preference precedence.  Once the classifier has answered, no
\* clause about the user's own stored attributes is in the dish_info bucket.
C18_SelfPreferenceNotItemDetail ==
    node["intent_classifier"] = "done"
      => \A t \in SelfPreferenceClauses : t \notin Range(chat_intents["dish_info"])

\* C19: self-preference guard.  Once the resolver has answered a request
\* whose query asks about the user's own stored attributes, with a context
\* that holds the user's allergens, the resolved query is the request's query.
C19_SelfPreferenceUnmodified ==
    (node["context_resolver"] = "done" /\ request.query \in SelfPreferenceClauses
       /\ ChatContext # <<>>)
      => resolved_query = request.query

\* C20: invalid request.  A received request without a query or without a
\* session id is rejected with the status error and no node runs for it.
C20_InvalidRequestRejected ==
    (ppc # "idle" /\ (request.query = "None" \/ request.session_id = "None"))
      => /\ ppc = "rejected"
         /\ status = "error"
         /\ \A n \in Nodes : node[n] = "pending"

\* C21: no internal error detail at the API boundary.  No entry of a
\* returned response carries the text of an internal exception, whatever
\* failed inside the pipeline.
C21_NoInternalErrorDetail ==
    ppc = "returned" => \A i \in DOMAIN responses : responses[i].result # ErrorDetailAnswer

\* C28: every request is answered.  A request that has entered the graph is
\* eventually returned to the caller, also when an LLM call of a node never
\* responds.
C28_EveryRequestAnswered == (ppc = "invoked") ~> (ppc = "returned")

----------------------------------------------------------------------------
\* Properties of chat sessions (SpecSessions)

Serving(k) == ipc[k] \in {"session", "context", "invoked"}

\* C7: per-session single writer.  At any time at most one pipeline invocation
\* serves a session and appends its turns: two invocations that are both between
\* get_or_create_session and the save of their turn have different sessions.
C7_SingleWriterPerSession ==
    \A k1, k2 \in Invocations :
        (k1 # k2 /\ Serving(k1) /\ Serving(k2)) => session_id[k1] # session_id[k2]

----------------------------------------------------------------------------
\* Properties of incremental updates (SpecInsert)

IsPrefix(a, b) == Len(a) <= Len(b) /\ \A k \in DOMAIN a : b[k] = a[k]

\* every metadata record stands at the position of its own dish's vector, and
\* no dish has two entries
Aligned(faiss, pkl) ==
    /\ Len(faiss) = Len(pkl)
    /\ \A k \in DOMAIN pkl :
          /\ faiss[k] = DishEmb(pkl[k].dish_id)
          /\ pkl[k].restaurant_id = DishRestaurant(pkl[k].dish_id)
    /\ \A j, k \in DOMAIN pkl : pkl[j].dish_id = pkl[k].dish_id => j = k

WrittenDishes == {b_metadata[i].dish_id : i \in DOMAIN b_metadata} \cup Range(new_dishes)

IndexedDishes == {index_pkl[i].dish_id : i \in DOMAIN index_pkl}

\* C29: no lost update.  Once a build and an update of the index have both
\* finished, the index holds the dishes of both: an entry for every dish
\* either of them wrote, with that dish's vector.
C29_NoLostUpdate ==
    (bpc = "idle" /\ upc = "idle")
      => /\ WrittenDishes \subseteq IndexedDishes
         /\ Aligned(index_faiss, index_pkl)

\* the index operations that wait on an external call: the build while the
\* texts are embedded, the update while the new texts are embedded
ExternalCallers ==
    (IF bpc = "embed" THEN {"build"} ELSE {}) \cup (IF upc = "add" THEN {"insert"} ELSE {})

Turns(ctx) == SelectSeq(ctx, LAMBDA e : "query" \in DOMAIN e)

\* C23: context window.  The context rebuild_context hands on holds at most
\* last_n previous turns, and they are the session's latest turns in order,
\* however many turns the session has stored.
C23_ContextWindow ==
    cxpc = "rebuilt"
      => LET turns == Turns(rebuilt)
             skipped == Len(stored_states) - Len(turns)
         IN  /\ Len(turns) <= last_n
             /\ Len(turns) = IF Len(stored_states) < last_n THEN Len(stored_states) ELSE last_n
             /\ \A i \in DOMAIN turns : turns[i] = turn_entry(stored_states[skipped + i])

C23_Witness ==
    /\ cxpc = "rebuilt"
    /\ user_doc = "allergic"
    /\ Len(stored_states) = last_n + 2
    /\ Len(rebuilt) = last_n + 1
    /\ Len(Turns(rebuilt)) = last_n

----------------------------------------------------------------------------
\* Properties of the SearchChat page (SpecChat, SpecChatLive)

UserMessages == SelectSeq(messages, LAMBDA msg : msg.type = "user")

AssistantMessages == SelectSeq(messages, LAMBDA msg : msg.type = "assistant")

AssistantContents ==
    {assistant_content(resp) : resp \in Responses} \cup {NetworkErrorContent}

\* every message has its answer and the page is ready for the next one
Answered ==
    /\ ~isLoading
    /\ fetches = <<>>
    /\ Len(AssistantMessages) = Len(UserMessages)

C27_SingleRequestInFlight ==
    /\ [](Len(fetches) <= 1)
    /\ [][(isLoading \/ trim(inputValue) = "")
            => (requests' = requests /\ UserMessages' = UserMessages)]_vars

C27_Witness ==
    /\ isLoading
    /\ Len(fetches) = 1
    /\ requests = 2
    /\ Len(messages) = 3

----------------------------------------------------------------------------
\* Properties of the Login and Dashboard pages (SpecLogin)

\* the last login request has succeeded
LoggedIn == ~isSubmitting /\ login_result.ok

\* C26: login stores the token.  Once a login request has succeeded,
\* localStorage holds the server's token under authToken and the entered
\* username under username, and the page shown is /dashboard.
C26_LoginStoresToken ==
    (LoggedIn /\ ~dashboard_checked)
      => /\ localStorage.authToken = login_result.value
         /\ localStorage.username = username
         /\ route = "/dashboard"

\* C30: the Dashboard keeps a logged-in user.  After a successful login the
\* Dashboard's check on mount finds the authToken and does not send the user
\* back to /login.
C30_DashboardKeepsUser ==
    (LoggedIn /\ dashboard_checked) => route = "/dashboard"

====
